---------------------------- MODULE Spec2Model ----------------------------
(***************************************************************************)
(* Conversation orchestration of ManipulatorAI.                            *)
(*                                                                         *)
(* The model follows the request handlers of app/api/conversations.py, the *)
(* EnhancedConversationEngine, the ConversationManager and the Mongo-backed*)
(* ConversationService.  A handler is a coroutine: it is split into one    *)
(* action per stretch of code between two awaits on the conversation       *)
(* store, so that concurrent handlers interleave exactly where the event   *)
(* loop (or a second worker) can interleave them.                          *)
(*                                                                         *)
(* Collaborator calls.  Every call on the conversation store either        *)
(* returns or raises; every AI Gateway call either answers or fails.  The  *)
(* manager calls the store as get_conversation(id) and                     *)
(* add_message(conversation_id, sender, content, metadata); the            *)
(* ConversationService of app/services/conversation_service.py offers      *)
(* get_conversation_by_id(id) and add_message(conversation_id, message),   *)
(* so with that class injected (api/conversations.py:31) these calls take  *)
(* the "raises" outcome every time; the "returns" outcome has the effect   *)
(* of the corresponding ConversationService operation ($push, find_one).   *)
(* Likewise generate_completion(prompt=...) fails against                  *)
(* AzureOpenAIService.generate_completion(messages, ...).                  *)
(***************************************************************************)
EXTENDS Integers, Sequences, FiniteSets, TLC

\* Number of request handlers (interactions) that arrive in a behaviour.
MaxCalls == 2

Customers == {"c1", "c2"}
Businesses == {"b1"}
\* Customer texts, chosen to hit each branch of the keyword heuristics.
Texts == {"i want to buy", "no", "hello"}

CallIds == 1..MaxCalls
\* Conversation ids are positions in the store (uuid4 is fresh for every create).
ConvIds == 1..MaxCalls

ACTIVE == "active"
QUALIFIED == "qualified"
UNINTERESTED == "uninterested"
TerminalStatus == {QUALIFIED, UNINTERESTED}

VARIABLES
    store,      \* the conversations collection: id -> document
    calls,      \* the request handlers: call id -> coroutine state
    gateway     \* the AI Gateway: "up" answers every call, "down" makes every call
                \* raise (an error, or a timeout of the client), "silent" never
                \* answers and nothing raises

VARIABLES
    redis,          \* broker and result backend: "up" or "down" (unreachable)
    queues,         \* broker: queue name -> task ids waiting for a worker
    task_meta,      \* result backend: task id -> stored record
    active_tasks,   \* TaskManager.active_tasks: task id -> tracking entry
    worker,         \* task id -> position of the task in the worker pool
    revoked,        \* task ids the workers were told to revoke
    now,            \* datetime.utcnow(), in hours
    last,           \* the last call on the TaskManager and how it ended
    unacked         \* broker: task id -> queue, for messages delivered to a worker
                    \* and not acknowledged

VARIABLES
    matcher,    \* one call of ProductService.search_products_by_tags
    composer,   \* the PromptEngine and the calls made on it
    decision    \* one call of ConversationManager._determine_conversation_status

taskvars == <<redis, queues, task_meta, active_tasks, worker, revoked, now, last, unacked>>

purevars == <<matcher, composer, decision>>

vars == <<store, calls, gateway, redis, queues, task_meta, active_tasks, worker,
          revoked, now, last, unacked, matcher, composer, decision>>


-----------------------------------------------------------------------------
(* Conversation store: ConversationService *)

\* A stored message: who sent it, its role in the protocol, and the handler
\* that appended it (the handler stands for the message's content).
Message(sender, type, k) == [sender |-> sender, type |-> type, call |-> k]

\* create_conversation: a fresh id, status Active, no messages.
create_conversation(s, customer, business, branch) ==
    Append(s, [customer_id |-> customer,
               business_id |-> business,
               conversation_branch |-> branch,
               messages |-> <<>>,
               status |-> ACTIVE])

\* add_message with $set in place of $push: the new message replaces the history.
add_message_set(s, id, message) ==
    IF id \in DOMAIN s
    THEN [s EXCEPT ![id].messages = <<message>>]
    ELSE s

\* add_message: update_one({_id}, {$push: {messages: message}}); an unknown id
\* matches no document and changes nothing.
add_message(s, id, message) ==
    IF id \in DOMAIN s
    THEN [s EXCEPT ![id].messages = Append(@, message)]
    ELSE s

\* update_conversation_status with update_many({}, ...): every document is set.
update_conversation_status_many(s, id, status) ==
    [i \in DOMAIN s |-> [s[i] EXCEPT !.status = status]]

\* update_conversation_status: update_one({_id}, {$set: {status}}).
update_conversation_status(s, id, status) ==
    IF id \in DOMAIN s
    THEN [s EXCEPT ![id].status = status]
    ELSE s

\* get_active_conversations_for_customer: find({customer_id, status: "active"}).
\* The query does not look at business_id.
get_active_conversations_for_customer(s, customer) ==
    {i \in DOMAIN s : s[i].customer_id = customer /\ s[i].status = ACTIVE}

-----------------------------------------------------------------------------
(* AI Gateway: AzureOpenAIService *)

CompletionFallback == "I apologize, but I'm experiencing technical difficulties. Please try again in a moment."
ResponseFallback == "Thank you for your interest! I'm here to help you find the perfect product. How can I assist you today?"
AIText == "<text composed by the language model>"

\* generate_completion without the static text: a failed call yields no text.
generate_completion_empty(answered) ==
    IF answered THEN AIText ELSE ""

\* generate_completion: the model's text, or the static text when the call
\* to the gateway raises (error or timeout).  It never raises itself.
generate_completion(answered) ==
    IF answered THEN AIText ELSE CompletionFallback

\* generate_conversation_response: indexes conversation_context["branch"]
\* inside its try block; a context without that key takes the except path.
generate_conversation_response(hasBranch, answered) ==
    IF hasBranch THEN generate_completion(answered) ELSE ResponseFallback

\* Whether a gateway call made now is answered.
GatewayAnswers == gateway = "up"

\* await self.client.chat.completions.create(...): the coroutine resumes when
\* the gateway has answered or the client has raised.  The client is built
\* without a timeout and the call passes none.
create_returns == gateway # "silent"

-----------------------------------------------------------------------------
(* ConversationManager: message analysis and status *)

InterestLevels == {"high", "medium", "low", "declining"}
Intents == {"information", "purchase", "comparison", "objection", "leaving"}

\* What the gateway's JSON analysis can say.
AIAnalyses ==
    [interest_level : InterestLevels, intent : Intents,
     needs_cross_recommendation : BOOLEAN]

\* Substring tests of _fallback_message_analysis on the texts of the model.
HasNegativeKeyword(message) == message \in {"no"}
HasPositiveKeyword(message) == message \in {"i want to buy"}

\* _fallback_message_analysis: negative keywords win over positive ones.
fallback_message_analysis(message) ==
    IF HasNegativeKeyword(message)
    THEN [interest_level |-> "declining", intent |-> "objection",
          needs_cross_recommendation |-> FALSE]
    ELSE IF HasPositiveKeyword(message)
    THEN [interest_level |-> "high", intent |-> "purchase",
          needs_cross_recommendation |-> FALSE]
    ELSE [interest_level |-> "medium", intent |-> "information",
          needs_cross_recommendation |-> FALSE]

\* One call of generate_completion for the analysis: parsed = FALSE when the
\* call failed or its text is not JSON, else the analysis it carried.
NoAnalysis ==
    [interest_level |-> "medium", intent |-> "information",
     needs_cross_recommendation |-> FALSE]

AnalysisOutcomes ==
    {[parsed |-> FALSE, analysis |-> NoAnalysis]}
    \cup (IF gateway = "down" THEN {}
          ELSE {[parsed |-> TRUE, analysis |-> a] : a \in AIAnalyses})

\* _analyze_customer_message: the gateway's analysis when the call answered
\* with parseable JSON, the keyword heuristics otherwise.
analyze_customer_message(message, outcome) ==
    IF outcome.parsed THEN outcome.analysis ELSE fallback_message_analysis(message)

\* Which of the two return statements of _analyze_customer_message produced
\* the analysis: line 300 with the parsed JSON, or lines 298 and 304.
analysis_source(outcome) == IF outcome.parsed THEN "gateway" ELSE "heuristics"

MessageCeiling == 10
UninterestedConcludeCount == 3
ConcludeCount == 15

\* _determine_conversation_status
determine_conversation_status_high_only(analysis, message_count) ==
    IF analysis.intent = "purchase" /\ analysis.interest_level = "high"
    THEN QUALIFIED
    ELSE IF analysis.interest_level = "declining" \/ analysis.intent \in {"objection", "leaving"}
    THEN UNINTERESTED
    ELSE IF message_count > MessageCeiling /\ analysis.interest_level = "low"
    THEN UNINTERESTED
    ELSE ACTIVE
determine_conversation_status(analysis, message_count) ==
    IF analysis.intent = "purchase" /\ analysis.interest_level \in {"high", "medium"}
    THEN QUALIFIED
    ELSE IF analysis.interest_level = "declining" \/ analysis.intent \in {"objection", "leaving"}
    THEN UNINTERESTED
    ELSE IF message_count > MessageCeiling /\ analysis.interest_level = "low"
    THEN UNINTERESTED
    ELSE ACTIVE

\* _should_conclude_conversation with the last bound at 1 in place of 15.
should_conclude_conversation_early(status, message_count, analysis) ==
    \/ status = QUALIFIED
    \/ (status = UNINTERESTED /\ message_count > UninterestedConcludeCount)
    \/ analysis.intent = "leaving"
    \/ message_count > 1

\* _should_conclude_conversation
should_conclude_conversation(status, message_count, analysis) ==
    \/ status = QUALIFIED
    \/ (status = UNINTERESTED /\ message_count > UninterestedConcludeCount)
    \/ analysis.intent = "leaving"
    \/ message_count > ConcludeCount

\* The reply of process_customer_message: each of the three response handlers
\* (_handle_standard_conversation, _handle_uninterested_customer,
\* _handle_cross_product_recommendation) returns what
\* generate_conversation_response returns for a context with a branch.
handler_reply(status, analysis) ==
    generate_conversation_response(TRUE, GatewayAnswers)

-----------------------------------------------------------------------------
(* Results of the manager and the engine *)

WelcomeFallback == "Hello! How can I help you today?"
ApologyReply == "I apologize for the confusion. Could you please repeat that?"
NotFoundReply == "I'm sorry, I couldn't find our conversation. Could you please start over?"
InitFailedError == "Failed to initialize conversation"
StartRaisedError == "Failed to start conversation: <text of the raised exception>"

NotStarted == [called |-> FALSE, raised |-> FALSE, conversation_id |-> 0, text |-> "none"]

\* ConversationManager.start_conversation, normal return.
start_conversation_return(id, welcome) ==
    [called |-> TRUE, raised |-> FALSE, conversation_id |-> id, text |-> welcome]

\* start_conversation with an except branch that re-raises.
start_conversation_reraise ==
    [called |-> TRUE, raised |-> TRUE, conversation_id |-> 0, text |-> "none"]

\* ConversationManager.start_conversation, except branch: any exception of
\* the body is logged and (None, greeting) is returned.
start_conversation_except ==
    [called |-> TRUE, raised |-> FALSE, conversation_id |-> 0, text |-> WelcomeFallback]

\* ConversationManager.process_customer_message, except branch.
process_customer_message_except ==
    [reply |-> ApologyReply, status |-> ACTIVE]

\* EnhancedConversationEngine.start_*_conversation: what the engine makes of
\* the manager's start result.
engine_start_result(st) ==
    IF st.raised
    THEN [success |-> FALSE, error |-> StartRaisedError]
    ELSE IF st.conversation_id = 0
    THEN [success |-> FALSE, error |-> InitFailedError]
    ELSE [success |-> TRUE, error |-> "none"]

-----------------------------------------------------------------------------
(* Request handlers *)

IdleCall ==
    [pc |-> "idle", kind |-> "none",
     customer_id |-> "none", business_id |-> "none", message |-> "none",
     conversation_id |-> 0,        \* the conversation the handler works on
     view |-> "none",              \* what the lookup saw: "active", "terminal_only", "new"
     created |-> FALSE,            \* this handler inserted conversation_id
     message_count |-> 0,          \* conversation_states[conversation_id] of its manager
     conversation_status |-> "none",
     analysis_source |-> "none",   \* where customer_analysis came from
     ai_response |-> "none",
     start |-> NotStarted,
     success |-> FALSE, error |-> "none", http |-> 0]

\* Handlers arrive one after the other; call ids are arrival order.
CanArrive(k) ==
    /\ calls[k].pc = "idle"
    /\ \A j \in CallIds : j < k => calls[j].pc # "idle"

\* A handler that has returned keeps its request, its result and what it did
\* to the store; the locals of its frame are gone.
Returned(c) == [c EXCEPT !.pc = "done", !.message = "none", !.message_count = 0]

\* The handler ends with an HTTP error and no reply.
Failed(c, code) == [Returned(c) EXCEPT !.http = code]

\* start_conversation failed: the engine reports it and the endpoint answers 500.
StartFailed(c, st) ==
    [Returned(c) EXCEPT !.start = st,
              !.success = engine_start_result(st).success,
              !.error = engine_start_result(st).error,
              !.http = 500]

\* process_customer_message returned (reply, status): the engine wraps it in a
\* success result.  On the start path of POST /conversation/message the
\* endpoint then reads the conversation back (conversations.py:113), which
\* may raise.
Replied(c, reply, status, readBack) ==
    [Returned(c) EXCEPT !.ai_response = reply, !.conversation_status = status,
              !.success = TRUE,
              !.http = IF readBack THEN 200 ELSE 500]

ReadBackOutcomes(c) ==
    IF c.kind = "message" /\ c.start.called THEN BOOLEAN ELSE {TRUE}

CustomerView(customer) ==
    IF \E i \in DOMAIN store : store[i].customer_id = customer
    THEN "terminal_only" ELSE "new"

\* POST /conversation/message, synchronous path, and the body of
\* process_conversation_message_task: look up the customer's active
\* conversations, continue the first one or start a Convincer conversation.
process_customer_message_endpoint(k) ==
    /\ CanArrive(k)
    /\ \E customer \in Customers, business \in Businesses, text \in Texts, ok \in BOOLEAN :
        LET c == [IdleCall EXCEPT !.kind = "message", !.customer_id = customer,
                                  !.business_id = business, !.message = text]
            existing == get_active_conversations_for_customer(store, customer)
        IN  IF ~ok
            THEN calls' = [calls EXCEPT ![k] = Failed(c, 500)]
            ELSE IF existing # {}
            THEN \E i \in existing :
                    calls' = [calls EXCEPT ![k] =
                        [c EXCEPT !.pc = "pm_get", !.conversation_id = i, !.view = "active"]]
            ELSE calls' = [calls EXCEPT ![k] =
                        [c EXCEPT !.pc = "sc_create", !.view = CustomerView(customer)]]
    /\ UNCHANGED <<store, gateway>>

\* POST /conversation/{conversation_id}/continue
continue_conversation_endpoint(k) ==
    /\ CanArrive(k)
    /\ \E id \in ConvIds, text \in Texts :
        calls' = [calls EXCEPT ![k] =
            [IdleCall EXCEPT !.kind = "continue", !.message = text,
                             !.conversation_id = id, !.pc = "pm_get"]]
    /\ UNCHANGED <<store, gateway>>

\* POST /conversation/webhook-interaction, synchronous path: verify the
\* product, then start a Manipulator conversation.  No lookup of existing
\* conversations.
process_webhook_interaction(k) ==
    /\ CanArrive(k)
    /\ \E customer \in Customers, business \in Businesses, productFound \in BOOLEAN :
        LET c == [IdleCall EXCEPT !.kind = "webhook", !.customer_id = customer,
                                  !.business_id = business]
        IN  calls' = [calls EXCEPT ![k] =
                IF productFound THEN [c EXCEPT !.pc = "sc_create"] ELSE Failed(c, 404)]
    /\ UNCHANGED <<store, gateway>>

Branch(c) == IF c.kind = "webhook" THEN "manipulator" ELSE "convincer"

\* start_conversation up to the insert (conversation_manager.py:62-94).
start_conversation_create(k) ==
    LET c == calls[k] IN
    /\ c.pc = "sc_create"
    /\ \E ok \in BOOLEAN :
        IF ok
        THEN /\ store' = create_conversation(store, c.customer_id, c.business_id, Branch(c))
             /\ calls' = [calls EXCEPT ![k] =
                    [c EXCEPT !.pc = "sc_welcome", !.conversation_id = Len(store) + 1,
                              !.created = TRUE]]
        ELSE /\ store' = store
             /\ calls' = [calls EXCEPT ![k] = StartFailed(c, start_conversation_except)]
    /\ UNCHANGED gateway

\* start_conversation from the welcome text to its return
\* (conversation_manager.py:96-139): generate the welcome, store it, set up
\* conversation_states.  The Manipulator start ends here; the Convincer start
\* goes on to process the customer's initial message.
start_conversation_welcome(k) ==
    LET c == calls[k] IN
    /\ c.pc = "sc_welcome"
    /\ create_returns
    /\ \E ok \in BOOLEAN :
        LET welcome == generate_conversation_response(TRUE, GatewayAnswers)
            st == start_conversation_return(c.conversation_id, welcome)
        IN  IF ok
            THEN /\ store' = add_message(store, c.conversation_id, Message("agent", "welcome", k))
                 /\ calls' = [calls EXCEPT ![k] =
                        IF c.kind = "webhook"
                        THEN [Returned(c) EXCEPT !.start = st, !.ai_response = welcome,
                                       !.success = engine_start_result(st).success,
                                       !.http = 200]
                        ELSE [c EXCEPT !.pc = "pm_get", !.start = st, !.message_count = 1]]
            ELSE /\ store' = store
                 /\ calls' = [calls EXCEPT ![k] = StartFailed(c, start_conversation_except)]
    /\ UNCHANGED gateway

-----------------------------------------------------------------------------
(* ConversationManager.process_customer_message, step by step *)

\* Lines 159-165: read the conversation and its history.  A store without
\* the conversation gives the not-found reply; a raising store the apology.
process_message_get(k) ==
    LET c == calls[k] IN
    /\ c.pc = "pm_get"
    /\ \E ok \in BOOLEAN, readBack \in ReadBackOutcomes(c) :
        calls' = [calls EXCEPT ![k] =
            IF ~ok
            THEN Replied(c, process_customer_message_except.reply,
                         process_customer_message_except.status, readBack)
            ELSE IF c.conversation_id \notin DOMAIN store
            THEN Replied(c, NotFoundReply, ACTIVE, readBack)
            ELSE [c EXCEPT !.pc = "pm_add_customer"]]
    /\ UNCHANGED <<store, gateway>>

\* Lines 167-173: store the customer message.
process_message_add_customer(k) ==
    LET c == calls[k] IN
    /\ c.pc = "pm_add_customer"
    /\ \E ok \in BOOLEAN, readBack \in ReadBackOutcomes(c) :
        IF ok
        THEN /\ store' = add_message(store, c.conversation_id, Message("customer", "message", k))
             /\ calls' = [calls EXCEPT ![k] = [c EXCEPT !.pc = "pm_respond"]]
        ELSE /\ store' = store
             /\ calls' = [calls EXCEPT ![k] =
                    Replied(c, process_customer_message_except.reply,
                            process_customer_message_except.status, readBack)]
    /\ UNCHANGED gateway

\* Lines 175-227 up to the conclusion: analyse the message, update the
\* in-memory state, determine the status, pick the reply, store the reply,
\* decide whether to conclude.
process_message_respond(k) ==
    LET c == calls[k] IN
    /\ c.pc = "pm_respond"
    /\ create_returns
    /\ \E outcome \in AnalysisOutcomes, ok \in BOOLEAN, readBack \in ReadBackOutcomes(c) :
        LET analysis == analyze_customer_message(c.message, outcome)
            count == c.message_count + 1
            status == determine_conversation_status(analysis, count)
            reply == handler_reply(status, analysis)
        IN  IF ~ok
            THEN /\ store' = store
                 /\ calls' = [calls EXCEPT ![k] =
                        Replied(c, process_customer_message_except.reply,
                                process_customer_message_except.status, readBack)]
            ELSE /\ store' = add_message(store, c.conversation_id, Message("agent", "reply", k))
                 /\ calls' = [calls EXCEPT ![k] =
                        IF should_conclude_conversation(status, count, analysis)
                        THEN [c EXCEPT !.pc = "conclude_add", !.message_count = count,
                                       !.ai_response = reply, !.conversation_status = status,
                                       !.analysis_source = analysis_source(outcome)]
                        ELSE [Replied(c, reply, status, readBack) EXCEPT
                                       !.analysis_source = analysis_source(outcome)]]
    /\ UNCHANGED gateway

\* _conclude_conversation, lines 578-611: read the history, compose the
\* closing message, store it.  The closing context has no "branch" key.  An
\* exception ends the conclusion silently.
conclude_conversation_add(k) ==
    LET c == calls[k] IN
    /\ c.pc = "conclude_add"
    /\ \E ok \in BOOLEAN, readBack \in ReadBackOutcomes(c) :
        IF ok
        THEN /\ store' = add_message(store, c.conversation_id, Message("agent", "conclusion", k))
             /\ calls' = [calls EXCEPT ![k] = [c EXCEPT !.pc = "conclude_status"]]
        ELSE /\ store' = store
             /\ calls' = [calls EXCEPT ![k] =
                    Replied(c, c.ai_response, c.conversation_status, readBack)]
    /\ UNCHANGED gateway

\* _conclude_conversation, lines 613-634: persist the final status; then
\* process_customer_message returns (response, conversation_status).
conclude_conversation_status(k) ==
    LET c == calls[k] IN
    /\ c.pc = "conclude_status"
    /\ \E ok \in BOOLEAN, readBack \in ReadBackOutcomes(c) :
        /\ store' = IF ok
                    THEN update_conversation_status(store, c.conversation_id, c.conversation_status)
                    ELSE store
        /\ calls' = [calls EXCEPT ![k] =
                Replied(c, c.ai_response, c.conversation_status, readBack)]
    /\ UNCHANGED gateway

-----------------------------------------------------------------------------
(***************************************************************************)
(* Task Dispatcher and Monitor: TaskManager of app/services/task_manager.py*)
(* over the Celery application of app/core/celery_app.py, whose broker and *)
(* result backend are the same Redis (celery_app.py:22-23).                *)
(*                                                                         *)
(* Queue backend.  apply_async publishes the task on the named queue and   *)
(* returns a fresh id without writing a result record; AsyncResult.state   *)
(* is the state of the stored record, and PENDING when there is no record  *)
(* (so also for an id nobody dispatched); update_state stores a state and  *)
(* its meta; the worker stores SUCCESS with the return value when the      *)
(* handler returns and FAILURE with the exception and traceback when it    *)
(* raises; revoke(terminate=True) makes the worker discard the task if it  *)
(* has not started it and kill the handler if it is running, and the task  *)
(* is then stored as REVOKED.  With Redis unreachable every one of these   *)
(* calls raises.                                                           *)
(*                                                                         *)
(* A handler is one action per write it makes to the result record, since  *)
(* the API process reads and revokes between two writes of the worker.     *)
(* All task handlers have the shape of process_conversation_message_task:  *)
(* PROCESSING first, then either SUCCESS and return, or FAILURE and raise. *)
(***************************************************************************)

\* Tasks dispatched in a behaviour of DispatchSpec.
MaxTasks == 3
\* Tasks dispatched in a behaviour of TaskSpec.
MaxWorked == 2
\* Hours on the clock in a behaviour of TaskSpec.
MaxTime == 25

TaskIds == 1..MaxTasks
\* A handle that no dispatch returns.
UnknownHandle == MaxTasks + 1
Handles == TaskIds \cup {UnknownHandle}

Priorities == {"high", "medium", "low"}

high_priority_queue == "conversations"
medium_priority_queue == "webhooks"
low_priority_queue == "analytics"
QueueNames == {high_priority_queue, medium_priority_queue, low_priority_queue}

get_queue_for_priority_default(priority) == medium_priority_queue
get_queue_for_priority(priority) ==
    CASE priority = "high" -> high_priority_queue
      [] priority = "medium" -> medium_priority_queue
      [] priority = "low" -> low_priority_queue
      [] OTHER -> medium_priority_queue

PENDING == "PENDING"
PROCESSING == "PROCESSING"
SUCCESS == "SUCCESS"
FAILURE == "FAILURE"
REVOKED == "REVOKED"
\* The states get_active_tasks and _cleanup_old_task_tracking treat as finished.
FinishedStates == {SUCCESS, FAILURE, REVOKED}

\* Hours a finished task stays in the tracking map.
TrackingRetention == 24

\* No record in the result backend.
NoMeta == [status |-> "NONE", result |-> "none", traceback |-> FALSE]

NoCall == [op |-> "none", handle |-> UnknownHandle, outcome |-> "none",
           task_type |-> "none", priority |-> "none"]

\* The tasks apply_async has published so far.
Dispatched == {k \in TaskIds : worker[k] # "none"}
\* uuid of the next task: fresh for every apply_async.
FreshTaskId == Cardinality(Dispatched) + 1
HasCapacity(bound) == FreshTaskId <= bound

AsyncResultState_started(task_id) ==
    IF task_id \in TaskIds /\ task_meta[task_id].status # "NONE"
    THEN task_meta[task_id].status
    ELSE PROCESSING
AsyncResultState(task_id) ==
    IF task_id \in TaskIds /\ task_meta[task_id].status # "NONE"
    THEN task_meta[task_id].status
    ELSE PENDING

AsyncResultMeta(task_id) ==
    IF task_id \in TaskIds THEN task_meta[task_id] ELSE NoMeta

get_task_status(task_id) ==
    IF redis = "down"
    THEN [task_id |-> task_id, status |-> "ERROR", result |-> "none",
          info |-> "none", traceback |-> FALSE, task_metadata |-> {},
          error |-> "connection error"]
    ELSE LET state == AsyncResultState(task_id)
             meta == AsyncResultMeta(task_id)
         IN  [task_id |-> task_id,
              status |-> state,
              result |-> IF state = SUCCESS THEN meta.result ELSE "none",
              info |-> meta.result,
              traceback |-> IF state = FAILURE THEN meta.traceback ELSE FALSE,
              task_metadata |-> IF task_id \in DOMAIN active_tasks
                                THEN {active_tasks[task_id]} ELSE {},
              error |-> "none"]

\* self.active_tasks = {}
NoTracking == [j \in {} |-> NoCall]

\* self.active_tasks[task.id] = {...}
track_task_reset(tracking, task_id, entry) ==
    [j \in {task_id} |-> entry]
track_task(tracking, task_id, entry) ==
    [j \in DOMAIN tracking \cup {task_id} |->
        IF j = task_id THEN entry ELSE tracking[j]]

\* del self.active_tasks[task_id]
untrack_task(tracking, task_id) ==
    [j \in DOMAIN tracking \ {task_id} |-> tracking[j]]

TrackingEntry(task_type, priority) ==
    [task_type |-> task_type, created_at |-> now, priority |-> priority]

\* _cleanup_old_task_tracking without the look at result.state.
cleanup_old_task_tracking_any_state(tracking) ==
    [j \in {i \in DOMAIN tracking :
                ~(tracking[i].created_at < now - TrackingRetention)} |-> tracking[j]]

\* _cleanup_old_task_tracking: the entries created before the cutoff whose
\* task is finished are deleted; an exception while reading a state ends the
\* clean-up before anything is deleted.
cleanup_old_task_tracking(tracking) ==
    IF redis = "down" /\ \E j \in DOMAIN tracking :
                            tracking[j].created_at < now - TrackingRetention
    THEN tracking
    ELSE LET tasks_to_remove ==
                {j \in DOMAIN tracking :
                    /\ tracking[j].created_at < now - TrackingRetention
                    /\ AsyncResultState(j) \in FinishedStates}
         IN  [j \in DOMAIN tracking \ tasks_to_remove |-> tracking[j]]

not_finished_no_failure(status) == status \notin {SUCCESS, REVOKED}
not_finished(status) == status \notin {SUCCESS, FAILURE, REVOKED}

\* What get_active_tasks returns when called in the current state.
active_task_list_finished ==
    LET tracking == cleanup_old_task_tracking(active_tasks)
    IN  {get_task_status(j) : j \in {i \in DOMAIN tracking :
                                        ~not_finished(get_task_status(i).status)}}
active_task_list ==
    LET tracking == cleanup_old_task_tracking(active_tasks)
    IN  {get_task_status(j) : j \in {i \in DOMAIN tracking :
                                        not_finished(get_task_status(i).status)}}

task_frame ==
    UNCHANGED <<store, calls, gateway, redis, matcher, composer, decision, unacked>>

apply_async(task_id, queue) ==
    /\ queues' = [queues EXCEPT ![queue] = Append(@, task_id)]
    /\ worker' = [worker EXCEPT ![task_id] = "queued"]

\* The body shared by the dispatch entry points of TaskManager.
Dispatch(task_type, priority, queue) ==
    /\ IF redis = "up"
       THEN /\ apply_async(FreshTaskId, queue)
            /\ active_tasks' = track_task(active_tasks, FreshTaskId,
                                          TrackingEntry(task_type, priority))
            /\ last' = [op |-> "dispatch", handle |-> FreshTaskId,
                        outcome |-> "returned",
                        task_type |-> task_type, priority |-> priority]
       ELSE /\ last' = [op |-> "dispatch", handle |-> UnknownHandle,
                        outcome |-> "OperationalError",
                        task_type |-> task_type, priority |-> priority]
            /\ UNCHANGED <<queues, worker, active_tasks>>
    /\ UNCHANGED <<task_meta, revoked, now>>
    /\ task_frame

process_customer_message_async(priority) ==
    Dispatch("conversation_message", priority, get_queue_for_priority(priority))

process_manipulator_interaction_async(priority) ==
    Dispatch("manipulator_interaction", priority, get_queue_for_priority(priority))

continue_conversation_async(priority) ==
    Dispatch("continue_conversation", priority, get_queue_for_priority(priority))

process_webhook_async(priority) ==
    Dispatch("webhook_processing", priority, get_queue_for_priority(priority))

generate_analytics_async(priority) ==
    Dispatch("analytics_generation", priority, get_queue_for_priority(priority))

generate_performance_report_async(priority) ==
    Dispatch("performance_report", priority, get_queue_for_priority(priority))

schedule_cleanup_task ==
    Dispatch("data_cleanup", "low", low_priority_queue)

\* The alias passes conversation_id=, customer_message= and metadata= to
\* process_customer_message_async, which has no such parameters.
process_conversation_async(priority) ==
    /\ last' = [op |-> "dispatch", handle |-> UnknownHandle, outcome |-> "TypeError",
                task_type |-> "conversation_message", priority |-> priority]
    /\ UNCHANGED <<queues, worker, active_tasks, task_meta, revoked, now>>
    /\ task_frame

\* POST /conversation/message?async_processing=true
process_customer_message_async_endpoint ==
    /\ HasCapacity(MaxWorked)
    /\ process_customer_message_async("high")

\* POST /conversation/webhook-interaction (async_processing defaults to true)
process_webhook_interaction_async_endpoint ==
    /\ HasCapacity(MaxWorked)
    /\ process_webhook_async("high")

\* GET /conversation/tasks/{task_id}/status
get_task_status_endpoint(task_id) ==
    /\ last' = [NoCall EXCEPT !.op = "get_task_status", !.handle = task_id,
                              !.outcome = get_task_status(task_id).status]
    /\ UNCHANGED <<queues, worker, active_tasks, task_meta, revoked, now>>
    /\ task_frame

\* result.revoke(terminate=True): the workers note the id; a finished task
\* is out of their hands.
revoke(task_id) ==
    IF task_id \in TaskIds
       /\ worker[task_id] \in {"queued", "started", "wrote_success", "wrote_failure"}
    THEN revoked \cup {task_id}
    ELSE revoked

cancel_task(task_id) ==
    /\ IF redis = "up"
       THEN /\ revoked' = revoke(task_id)
            /\ active_tasks' = IF task_id \in DOMAIN active_tasks
                               THEN untrack_task(active_tasks, task_id)
                               ELSE active_tasks
            /\ last' = [NoCall EXCEPT !.op = "cancel_task", !.handle = task_id,
                                      !.outcome = "True"]
       ELSE /\ last' = [NoCall EXCEPT !.op = "cancel_task", !.handle = task_id,
                                      !.outcome = "False"]
            /\ UNCHANGED <<revoked, active_tasks>>
    /\ UNCHANGED <<queues, worker, task_meta, now>>
    /\ task_frame

get_active_tasks ==
    /\ active_tasks' = cleanup_old_task_tracking(active_tasks)
    /\ last' = [NoCall EXCEPT !.op = "get_active_tasks", !.outcome = "returned"]
    /\ UNCHANGED <<queues, worker, task_meta, revoked, now>>
    /\ task_frame

\* Time passes: the tracking window exactly, or an hour more.
Tick ==
    /\ \E hours \in {TrackingRetention, TrackingRetention + 1} :
        /\ now + hours <= MaxTime
        /\ now' = now + hours
    /\ UNCHANGED <<queues, worker, task_meta, active_tasks, revoked, last>>
    /\ task_frame

update_state(task_id, state, meta) ==
    task_meta' = [task_meta EXCEPT ![task_id] =
                    [status |-> state, result |-> meta, traceback |-> FALSE]]

\* No message is with a worker.
NoUnacked == [j \in {} |-> high_priority_queue]

\* The broker hands the message to a worker and keeps it as unacknowledged.
deliver(messages, task_id, queue) ==
    [j \in DOMAIN messages \cup {task_id} |->
        IF j = task_id THEN queue ELSE messages[j]]

\* The worker acknowledges the message: the broker forgets it.
acknowledge(messages, task_id) ==
    [j \in DOMAIN messages \ {task_id} |-> messages[j]]

worker_frame ==
    UNCHANGED <<active_tasks, revoked, now, last, store, calls, gateway, redis,
                matcher, composer, decision>>

\* A worker takes the task at the head of a queue: a revoked task is
\* discarded, any other enters its handler, which reports PROCESSING.
task_received(k) ==
    /\ \E q \in QueueNames :
        /\ queues[q] # <<>>
        /\ Head(queues[q]) = k
        /\ queues' = [queues EXCEPT ![q] = Tail(@)]
        /\ unacked' = IF k \in revoked THEN unacked ELSE deliver(unacked, k, q)
    /\ IF k \in revoked
       THEN /\ task_meta' = [task_meta EXCEPT ![k] =
                    [status |-> REVOKED, result |-> "TaskRevokedError", traceback |-> FALSE]]
            /\ worker' = [worker EXCEPT ![k] = "discarded"]
       ELSE /\ update_state(k, PROCESSING, "progress")
            /\ worker' = [worker EXCEPT ![k] = "started"]
    /\ worker_frame

\* self.update_state(state="SUCCESS", meta={...}) at the end of the try block.
task_update_success(k) ==
    /\ worker[k] = "started"
    /\ update_state(k, SUCCESS, "completed")
    /\ worker' = [worker EXCEPT ![k] = "wrote_success"]
    /\ UNCHANGED <<queues, unacked>>
    /\ worker_frame

\* return result: the worker stores the return value and, the handler having
\* completed, acknowledges the message (task_acks_late).
task_return(k) ==
    /\ worker[k] = "wrote_success"
    /\ task_meta' = [task_meta EXCEPT ![k] =
            [status |-> SUCCESS, result |-> "return value", traceback |-> FALSE]]
    /\ worker' = [worker EXCEPT ![k] = "returned"]
    /\ unacked' = acknowledge(unacked, k)
    /\ UNCHANGED queues
    /\ worker_frame

\* except Exception: self.update_state(state="FAILURE", meta={"error": str(e)})
task_update_failure(k) ==
    /\ worker[k] = "started"
    /\ update_state(k, FAILURE, "error")
    /\ worker' = [worker EXCEPT ![k] = "wrote_failure"]
    /\ UNCHANGED <<queues, unacked>>
    /\ worker_frame

\* raise: the worker stores the exception and its traceback, and
\* acknowledges the message.
task_raise_success(k) ==
    /\ worker[k] = "wrote_failure"
    /\ task_meta' = [task_meta EXCEPT ![k] =
            [status |-> SUCCESS, result |-> "none", traceback |-> FALSE]]
    /\ worker' = [worker EXCEPT ![k] = "raised"]
    /\ unacked' = acknowledge(unacked, k)
    /\ UNCHANGED queues
    /\ worker_frame
task_raise(k) ==
    /\ worker[k] = "wrote_failure"
    /\ task_meta' = [task_meta EXCEPT ![k] =
            [status |-> FAILURE, result |-> "exception", traceback |-> TRUE]]
    /\ worker' = [worker EXCEPT ![k] = "raised"]
    /\ unacked' = acknowledge(unacked, k)
    /\ UNCHANGED queues
    /\ worker_frame

\* The revoke reaches the worker while the handler runs: the handler's
\* process is killed and the task is stored as revoked.
task_terminated(k) ==
    /\ k \in revoked
    /\ worker[k] \in {"started", "wrote_success", "wrote_failure"}
    /\ task_meta' = [task_meta EXCEPT ![k] =
            [status |-> REVOKED, result |-> "TaskRevokedError", traceback |-> FALSE]]
    /\ worker' = [worker EXCEPT ![k] = "terminated"]
    /\ unacked' = acknowledge(unacked, k)
    /\ UNCHANGED queues
    /\ worker_frame


\* The worker executing task k is lost before the handler completes.  The
\* message was not acknowledged (task_acks_late) and goes back to the queue
\* it came from: at its front when the pool rejects it for a lost child
\* process (task_reject_on_worker_lost), at its back when the broker restores
\* the unacknowledged messages of a lost worker.
worker_lost_acked(k) ==
    /\ k \in DOMAIN unacked
    /\ unacked' = acknowledge(unacked, k)
    /\ worker' = [worker EXCEPT ![k] = "lost"]
    /\ UNCHANGED <<queues, task_meta>>
    /\ worker_frame
worker_lost(k) ==
    /\ k \in DOMAIN unacked
    /\ \E front \in BOOLEAN :
        queues' = [queues EXCEPT ![unacked[k]] =
                        IF front THEN <<k>> \o @ ELSE Append(@, k)]
    /\ unacked' = acknowledge(unacked, k)
    /\ worker' = [worker EXCEPT ![k] = "queued"]
    /\ UNCHANGED task_meta
    /\ worker_frame

(***************************************************************************)
(* Relevance Matcher: ProductService.search_products_by_tags of            *)
(* app/services/product_service.py.  A score is the quotient of two        *)
(* lengths; the model keeps it as the pair (num, den) and compares two     *)
(* quotients by cross multiplication.                                      *)
(***************************************************************************)

\* Keywords in one search.
MaxKeywords == 2
\* Rows in the products table.
MaxProducts == 3

Words == {"laptop", "Laptop", "gaming", "dell"}

\* str.lower
lower(word) == IF word = "Laptop" THEN "laptop" ELSE word

SeqsUpTo(S, n) == UNION {[1..m -> S] : m \in 0..n}

\* product.product_tag of a row.
TagLists == {<<>>, <<"gaming">>, <<"Laptop", "gaming">>, <<"laptop", "gaming", "dell">>}

Quotient(n, d) == [num |-> n, den |-> d]
Thresholds ==
    {Quotient(0 - 1, 1), Quotient(0, 1), Quotient(3, 10), Quotient(1, 2),
     Quotient(4, 5), Quotient(1, 1)}

\* a >= b for quotients with positive denominators
AtLeast(a, b) == a.num * b.den >= b.num * a.den
SameQuotient(a, b) == a.num * b.den = b.num * a.den

Range(seq) == {seq[i] : i \in DOMAIN seq}

\* _calculate_tag_similarity
calculate_tag_similarity_empty_full(keywords, product_tags) ==
    IF keywords = <<>> \/ product_tags = <<>>
    THEN Quotient(1, 1)
    ELSE LET keywords_lower == {lower(word) : word \in Range(keywords)}
             tags_lower == {lower(tag) : tag \in Range(product_tags)}
             intersection == keywords_lower \cap tags_lower
             union == keywords_lower \cup tags_lower
         IN  IF union = {}
             THEN Quotient(0, 1)
             ELSE Quotient(Cardinality(intersection), Cardinality(union))
calculate_tag_similarity(keywords, product_tags) ==
    IF keywords = <<>> \/ product_tags = <<>>
    THEN Quotient(0, 1)
    ELSE LET keywords_lower == {lower(word) : word \in Range(keywords)}
             tags_lower == {lower(tag) : tag \in Range(product_tags)}
             intersection == keywords_lower \cap tags_lower
             union == keywords_lower \cup tags_lower
         IN  IF union = {}
             THEN Quotient(0, 1)
             ELSE Quotient(Cardinality(intersection), Cardinality(union))

\* Lines 77-86: the rows whose score reaches the threshold, in row order.
RECURSIVE collect_matches(_, _, _, _)
collect_matches(keywords, all_products, threshold, i) ==
    IF i > Len(all_products)
    THEN <<>>
    ELSE LET score == calculate_tag_similarity(keywords, all_products[i])
             rest == collect_matches(keywords, all_products, threshold, i + 1)
         IN  IF AtLeast(score, threshold)
             THEN <<[product_id |-> i, score |-> score]>> \o rest
             ELSE rest

\* One step of the sort: m goes behind every element whose score is not
\* lower, so that equal scores keep the order in which they were appended.
RECURSIVE insert_descending(_, _)
insert_descending(sorted, m) ==
    IF sorted = <<>>
    THEN <<m>>
    ELSE IF AtLeast(Head(sorted).score, m.score)
    THEN <<Head(sorted)>> \o insert_descending(Tail(sorted), m)
    ELSE <<m>> \o sorted

\* matches.sort(key=lambda x: x['score'], reverse=True): list.sort is stable,
\* also with reverse=True.
RECURSIVE sort_by_score(_, _)
sort_by_score(matches, i) ==
    IF i = 0
    THEN <<>>
    ELSE insert_descending(sort_by_score(matches, i - 1), matches[i])

search_products_by_tags_result_unsorted(keywords, all_products, threshold) ==
    collect_matches(keywords, all_products, threshold, 1)
search_products_by_tags_result(keywords, all_products, threshold) ==
    LET matches == collect_matches(keywords, all_products, threshold, 1)
    IN  sort_by_score(matches, Len(matches))

MatcherInputs ==
    [keywords : SeqsUpTo(Words, MaxKeywords),
     all_products : SeqsUpTo(TagLists, MaxProducts),
     threshold : Thresholds,
     pc : {"called"},
     matches : {<<>>}]

NoSearch ==
    [keywords |-> <<>>, all_products |-> <<>>, threshold |-> Quotient(4, 5),
     pc |-> "idle", matches |-> <<>>]

pure_frame == UNCHANGED <<store, calls, gateway, taskvars>>

\* search_products_by_tags: the query answers and the matches are returned,
\* or the query raises and the exception is raised again.
search_products_by_tags ==
    /\ matcher.pc = "called"
    /\ \E ok \in BOOLEAN :
        matcher' = IF ok
                   THEN [matcher EXCEPT
                            !.pc = "returned",
                            !.matches = search_products_by_tags_result(
                                matcher.keywords, matcher.all_products, matcher.threshold)]
                   ELSE [matcher EXCEPT !.pc = "raised"]
    /\ UNCHANGED <<composer, decision>>
    /\ pure_frame

(***************************************************************************)
(* Prompt Composer: PromptEngine.generate_conversation_prompt of           *)
(* app/services/prompt_engine.py.  A text is the sequence of the pieces    *)
(* the f-string puts together.  Every process that builds an engine (the   *)
(* API process, a Celery worker) has its own string hash seed, which fixes *)
(* the order in which a set of strings is iterated.                        *)
(***************************************************************************)

\* Calls of generate_conversation_prompt in one behaviour.
MaxComposed == 2

Processes == {"api", "worker"}
HashSeeds == {0, 1}

MANIPULATOR == "manipulator"
CONVINCER == "convincer"
Branches == {MANIPULATOR, CONVINCER}
Statuses == {ACTIVE, QUALIFIED, UNINTERESTED}

\* app.models.schemas.Product: product_id, product_attributes, product_tag,
\* product_description (created_at and updated_at do not reach a prompt).
Product(id, category, description) ==
    [product_id |-> id,
     product_attributes |-> [category |-> category, brand |-> "brand", price |-> "price"],
     product_tag |-> <<category>>,
     product_description |-> description]

CrmProduct == Product(1, "crm", "a crm suite")
PremiumProduct == Product(2, "premium", "a premium suite")
CrmAddOn == Product(3, "crm", "a crm add-on")
PremiumAddOn == Product(4, "premium", "a premium add-on")
\* The longest list has one product more than a prompt shows.
ProductLists ==
    {<<>>, <<CrmProduct>>, <<CrmProduct, PremiumProduct>>, <<PremiumProduct, CrmProduct>>,
     <<CrmProduct, PremiumProduct, CrmAddOn, PremiumAddOn>>}

\* msg.dict() of a stored message: sender and content.
HistoryEntry(i) ==
    [sender |-> IF i % 2 = 1 THEN "customer" ELSE "agent",
     content |-> <<"m1", "m2", "m3", "m4", "m5", "m6">>[i]]
\* The longest history has one entry more than a prompt shows.
Histories == {<<>>, <<HistoryEntry(1)>>, [i \in 1..6 |-> HistoryEntry(i)]}

\* A text is a sequence of pieces: fixed wording, the lines of one product,
\* or one line of the history.
TextPiece(wording) == [kind |-> "text", body |-> <<wording>>]
ItemPiece(description, category) ==
    [kind |-> "item", body |-> <<description, "Brand", "Price", category>>]
HistoryPiece(msg) == [kind |-> "history", body |-> <<msg.sender, msg.content>>]
TextPieces(wordings) == [i \in DOMAIN wordings |-> TextPiece(wordings[i])]

hasattr(object, name) == name \in DOMAIN object

Min(a, b) == IF a <= b THEN a ELSE b

\* Iteration over a set of strings: the order the hash seed gives.
HashOrder(seed) == IF seed = 0 THEN <<"crm", "premium">> ELSE <<"premium", "crm">>
iterate_set(set, seed) ==
    LET order == HashOrder(seed)
        RECURSIVE pick(_)
        pick(i) == IF i > Len(order) THEN <<>>
                   ELSE (IF order[i] \in set THEN <<order[i]>> ELSE <<>>) \o pick(i + 1)
    IN  pick(1)

\* _format_products_for_prompt: product.price, product.description and
\* product.category are read without a hasattr guard.
format_products_raises(products) ==
    \E i \in 1..Min(3, Len(products)) :
        ~(hasattr(products[i], "price") /\ hasattr(products[i], "description")
          /\ hasattr(products[i], "category"))

RECURSIVE format_products_for_prompt(_, _)
format_products_for_prompt(products, i) ==
    IF products = <<>>
    THEN <<TextPiece("No specific products available.")>>
    ELSE IF i > Min(3, Len(products))
    THEN <<>>
    ELSE <<ItemPiece(products[i].description, products[i].category)>>
         \o format_products_for_prompt(products, i + 1)

\* Lines 155-163: the categories the products show under the attribute
\* names metadata, product_metadata and category.
product_categories(product) ==
    IF hasattr(product, "metadata") /\ hasattr(product.metadata, "category")
    THEN {product.metadata.category}
    ELSE IF hasattr(product, "product_metadata")
            /\ hasattr(product.product_metadata, "category")
    THEN {product.product_metadata.category}
    ELSE IF hasattr(product, "category")
    THEN {product.category}
    ELSE {}

RaisedText == [raised |-> TRUE, text |-> <<>>]
Text(pieces) == [raised |-> FALSE, text |-> pieces]

\* _build_base_context
build_base_context_by_attributes(products, seed) ==
    IF products = <<>>
    THEN Text(<<TextPiece("We offer a variety of quality products to meet our customers' needs.")>>)
    ELSE LET categories == {products[i].product_attributes.category : i \in DOMAIN products}
         IN  Text(<<TextPiece("BUSINESS CONTEXT:")>> \o TextPieces(iterate_set(categories, seed))
                  \o <<TextPiece("AVAILABLE PRODUCTS:")>>
                  \o [i \in 1..Min(3, Len(products)) |->
                        ItemPiece(products[i].product_description,
                                  products[i].product_attributes.category)])
build_base_context(products, seed) ==
    IF products = <<>>
    THEN Text(<<TextPiece("We offer a variety of quality products to meet our customers' needs.")>>)
    ELSE LET categories == UNION {product_categories(products[i]) : i \in DOMAIN products}
             category_text == IF categories # {}
                              THEN iterate_set(categories, seed)
                              ELSE <<"various categories">>
         IN  IF format_products_raises(products)
             THEN RaisedText
             ELSE Text(<<TextPiece("BUSINESS CONTEXT:")>> \o TextPieces(category_text)
                       \o <<TextPiece("AVAILABLE PRODUCTS:")>>
                       \o format_products_for_prompt(products, 1))

\* _build_history_context: the last five messages, sender and content.
build_history_context(conversation_history) ==
    IF conversation_history = <<>>
    THEN <<TextPiece("This is the start of the conversation.")>>
    ELSE LET n == Len(conversation_history)
             from == IF n > 5 THEN n - 4 ELSE 1
         IN  <<TextPiece("RECENT CONVERSATION:")>>
             \o [i \in 1..(n - from + 1) |->
                    HistoryPiece(conversation_history[from + i - 1])]

fallback_conversation_prompt(customer_message) ==
    TextPieces(<<"You are a helpful customer service representative.", customer_message>>)

\* generate_conversation_prompt
generate_conversation_prompt_text(branch, customer_message, products, conversation_history, conversation_status, seed) ==
    LET base_context == build_base_context(products, seed)
        history_context == build_history_context(conversation_history)
    IN  IF base_context.raised
        THEN fallback_conversation_prompt(customer_message)
        ELSE IF conversation_status = UNINTERESTED
        THEN base_context.text \o history_context
             \o TextPieces(<<customer_message, "RECOVERY STRATEGY">>)
        ELSE IF branch = MANIPULATOR
        THEN base_context.text \o history_context
             \o TextPieces(<<customer_message, "MANIPULATOR BRANCH STRATEGY">>)
        ELSE base_context.text \o history_context
             \o TextPieces(<<customer_message, "CONVINCER BRANCH STRATEGY">>)

ComposerInputs ==
    [branch : Branches, customer_message : {"hello"}, products : ProductLists,
     conversation_history : Histories, conversation_status : Statuses]

\* No engine has been called; seed is the hash seed of each process.
NoComposer == [seed |-> [p \in Processes |-> 0], log |-> {}]

\* One call of generate_conversation_prompt on the engine of process p.
generate_conversation_prompt(p) ==
    /\ Cardinality(composer.log) < MaxComposed
    /\ \E input \in ComposerInputs :
        composer' = [composer EXCEPT !.log = @ \cup
            {[process |-> p,
              input |-> input,
              output |-> generate_conversation_prompt_text(
                            input.branch, input.customer_message, input.products,
                            input.conversation_history, input.conversation_status,
                            composer.seed[p])]}]
    /\ UNCHANGED <<matcher, decision>>
    /\ pure_frame

(***************************************************************************)
(* The status decision on its own: _determine_conversation_status of       *)
(* app/services/conversation_manager.py applied to any analysis and any    *)
(* message count.                                                          *)
(***************************************************************************)

\* The highest message_count a conversation state holds.
MaxMessageCount == 11

DecisionInputs ==
    [customer_analysis : AIAnalyses, message_count : 0..MaxMessageCount,
     pc : {"called"}, status : {"none"}]

NoDecision ==
    [customer_analysis |-> NoAnalysis, message_count |-> 0, pc |-> "idle",
     status |-> "none"]

determine_conversation_status_call ==
    /\ decision.pc = "called"
    /\ decision' = [decision EXCEPT
            !.pc = "returned",
            !.status = determine_conversation_status(decision.customer_analysis,
                                                     decision.message_count)]
    /\ UNCHANGED <<matcher, composer>>
    /\ pure_frame

PureVarsInit ==
    /\ matcher = NoSearch
    /\ composer = NoComposer
    /\ decision = NoDecision

TaskVarsInit ==
    /\ queues = [q \in QueueNames |-> <<>>]
    /\ task_meta = [k \in TaskIds |-> NoMeta]
    /\ active_tasks = NoTracking
    /\ worker = [k \in TaskIds |-> "none"]
    /\ revoked = {}
    /\ now = 0
    /\ last = NoCall
    /\ unacked = NoUnacked

-----------------------------------------------------------------------------
\* The synchronous handlers run with the task layer idle.
Init ==
    /\ store = <<>>
    /\ calls = [k \in CallIds |-> IdleCall]
    /\ gateway \in {"up", "down"}
    /\ redis = "up"
    /\ TaskVarsInit
    /\ PureVarsInit

Next ==
    \E k \in CallIds :
        \/ process_customer_message_endpoint(k) /\ UNCHANGED <<taskvars, purevars>>
        \/ continue_conversation_endpoint(k) /\ UNCHANGED <<taskvars, purevars>>
        \/ process_webhook_interaction(k) /\ UNCHANGED <<taskvars, purevars>>
        \/ start_conversation_create(k) /\ UNCHANGED <<taskvars, purevars>>
        \/ start_conversation_welcome(k) /\ UNCHANGED <<taskvars, purevars>>
        \/ process_message_get(k) /\ UNCHANGED <<taskvars, purevars>>
        \/ process_message_add_customer(k) /\ UNCHANGED <<taskvars, purevars>>
        \/ process_message_respond(k) /\ UNCHANGED <<taskvars, purevars>>
        \/ conclude_conversation_add(k) /\ UNCHANGED <<taskvars, purevars>>
        \/ conclude_conversation_status(k) /\ UNCHANGED <<taskvars, purevars>>

Spec == Init /\ [][Next]_vars

-----------------------------------------------------------------------------
(* The task layer on its own: the conversation store is not touched. *)

TaskInit ==
    /\ store = <<>>
    /\ calls = [k \in CallIds |-> IdleCall]
    /\ gateway = "up"
    /\ redis \in {"up", "down"}
    /\ TaskVarsInit
    /\ PureVarsInit

\* Callers of TaskManager before any worker runs.
DispatchNext ==
    \/ \E priority \in Priorities :
        HasCapacity(MaxTasks) /\ process_customer_message_async(priority)
    \/ \E priority \in Priorities :
        HasCapacity(MaxTasks) /\ process_manipulator_interaction_async(priority)
    \/ \E priority \in Priorities :
        HasCapacity(MaxTasks) /\ continue_conversation_async(priority)
    \/ \E priority \in Priorities :
        HasCapacity(MaxTasks) /\ process_webhook_async(priority)
    \/ \E priority \in Priorities :
        HasCapacity(MaxTasks) /\ generate_analytics_async(priority)
    \/ \E priority \in Priorities :
        HasCapacity(MaxTasks) /\ generate_performance_report_async(priority)
    \/ HasCapacity(MaxTasks) /\ schedule_cleanup_task
    \/ \E priority \in Priorities : process_conversation_async(priority)
    \/ get_active_tasks

DispatchSpec == TaskInit /\ [][DispatchNext]_vars

\* The task endpoints of the API and the worker pool.
TaskNext ==
    \/ process_customer_message_async_endpoint
    \/ process_webhook_interaction_async_endpoint
    \/ \E task_id \in Dispatched \cup {UnknownHandle} : get_task_status_endpoint(task_id)
    \/ \E task_id \in Dispatched \cup {UnknownHandle} : cancel_task(task_id)
    \/ get_active_tasks
    \/ Tick
    \/ \E k \in TaskIds : task_received(k)
    \/ \E k \in TaskIds : task_update_success(k)
    \/ \E k \in TaskIds : task_return(k)
    \/ \E k \in TaskIds : task_update_failure(k)
    \/ \E k \in TaskIds : task_raise(k)
    \/ \E k \in TaskIds : task_terminated(k)

TaskSpec == TaskInit /\ [][TaskNext]_vars

-----------------------------------------------------------------------------
(* The Relevance Matcher on its own: one search on any table of products. *)

MatchInit ==
    /\ store = <<>>
    /\ calls = [k \in CallIds |-> IdleCall]
    /\ gateway = "up"
    /\ redis = "up"
    /\ TaskVarsInit
    /\ matcher \in MatcherInputs
    /\ composer = NoComposer
    /\ decision = NoDecision

MatchNext == search_products_by_tags

MatchSpec == MatchInit /\ [][MatchNext]_vars

(* The priority lanes: dispatches at every priority, and workers that can  *)
(* be lost while they execute a task.                                      *)

LaneNext ==
    \/ \E priority \in Priorities :
        HasCapacity(MaxWorked) /\ process_customer_message_async(priority)
    \/ \E priority \in Priorities :
        HasCapacity(MaxWorked) /\ generate_analytics_async(priority)
    \/ \E k \in TaskIds : task_received(k)
    \/ \E k \in TaskIds : task_update_success(k)
    \/ \E k \in TaskIds : task_return(k)
    \/ \E k \in TaskIds : task_update_failure(k)
    \/ \E k \in TaskIds : task_raise(k)
    \/ \E k \in TaskIds : worker_lost(k)

LaneSpec == TaskInit /\ [][LaneNext]_vars

(* The conversation handlers in front of a gateway that may never answer.  *)
(* The event loop resumes every coroutine that is ready.                   *)

LiveInit ==
    /\ store = <<>>
    /\ calls = [k \in CallIds |-> IdleCall]
    /\ gateway \in {"up", "down", "silent"}
    /\ redis = "up"
    /\ TaskVarsInit
    /\ PureVarsInit

\* A step of handler k after its arrival.
Resume(k) ==
    /\ \/ start_conversation_create(k)
       \/ start_conversation_welcome(k)
       \/ process_message_get(k)
       \/ process_message_add_customer(k)
       \/ process_message_respond(k)
       \/ conclude_conversation_add(k)
       \/ conclude_conversation_status(k)
    /\ UNCHANGED <<taskvars, purevars>>

LiveSpec == LiveInit /\ [][Next]_vars /\ \A k \in CallIds : WF_vars(Resume(k))

(* The status decision on its own. *)

DecideInit ==
    /\ store = <<>>
    /\ calls = [k \in CallIds |-> IdleCall]
    /\ gateway = "up"
    /\ redis = "up"
    /\ TaskVarsInit
    /\ matcher = NoSearch
    /\ composer = NoComposer
    /\ decision \in DecisionInputs

DecideNext == determine_conversation_status_call

DecideSpec == DecideInit /\ [][DecideNext]_vars

(* The Prompt Composer on its own: engines in two processes. *)

ComposeInit ==
    /\ store = <<>>
    /\ calls = [k \in CallIds |-> IdleCall]
    /\ gateway = "up"
    /\ redis = "up"
    /\ TaskVarsInit
    /\ matcher = NoSearch
    /\ composer \in [seed : [Processes -> HashSeeds], log : {{}}]
    /\ decision = NoDecision

ComposeNext == \E p \in Processes : generate_conversation_prompt(p)

ComposeSpec == ComposeInit /\ [][ComposeNext]_vars

-----------------------------------------------------------------------------
(* Properties *)

Done(k) == calls[k].pc = "done"

\* The handler is inside ConversationManager.process_customer_message, past
\* its first read and before its return.
InProcessMessage(k) ==
    calls[k].pc \in {"pm_add_customer", "pm_respond", "conclude_add", "conclude_status"}

\* process_customer_message ran on an existing conversation and has returned.
ProcessedMessage(k) ==
    /\ Done(k)
    /\ calls[k].conversation_status # "none"
    /\ calls[k].ai_response # NotFoundReply

NonEmptyText(t) == t \notin {"", "none"}

\* C1: for each (customer id, business id) pair at most one stored
\* conversation has status Active, in every reachable state.
AtMostOneActivePerCustomer ==
    \A i, j \in DOMAIN store :
        (/\ i # j
         /\ store[i].customer_id = store[j].customer_id
         /\ store[i].business_id = store[j].business_id
         /\ store[i].status = ACTIVE)
        => store[j].status # ACTIVE

\* C2: two message interactions of the same customer that both looked up the
\* store while the customer had no conversation create one conversation
\* between them, and the later one works on the conversation of the earlier.
OneConversationForConcurrentNewCustomer ==
    \A k1, k2 \in CallIds :
        (/\ k1 < k2
         /\ calls[k1].kind = "message" /\ calls[k2].kind = "message"
         /\ calls[k1].customer_id = calls[k2].customer_id
         /\ calls[k1].business_id = calls[k2].business_id
         /\ calls[k1].view = "new" /\ calls[k2].view = "new")
        => /\ ~(calls[k1].created /\ calls[k2].created)
           /\ (calls[k1].conversation_id # 0 /\ calls[k2].conversation_id # 0)
                => calls[k1].conversation_id = calls[k2].conversation_id

\* C3: two process_customer_message calls on the same conversation id are
\* never in progress at the same time.
ProcessMessageMutuallyExclusive ==
    \A k1, k2 \in CallIds :
        (k1 # k2 /\ InProcessMessage(k1) /\ InProcessMessage(k2))
        => calls[k1].conversation_id # calls[k2].conversation_id

\* C4: no step takes a conversation from one terminal status to the other
\* terminal status.
NoTerminalToOtherTerminal ==
    [][\A i \in DOMAIN store :
          (store[i].status \in TerminalStatus /\ store'[i].status \in TerminalStatus)
          => store'[i].status = store[i].status]_vars

\* C5: an interaction of a customer whose conversations are all terminal
\* creates no new conversation.
TerminalCustomerCreatesNoConversation ==
    \A k \in CallIds : calls[k].view = "terminal_only" => ~calls[k].created

IsProcessMessageEntry(m) == m.type # "welcome"
IsConclusion(m) == m.type = "conclusion"

ProcessMessageEntries(i) == SelectSeq(store[i].messages, IsProcessMessageEntry)

\* C6: once no process_customer_message call is in progress on a
\* conversation, the entries those calls appended are two per returned call
\* plus one per closing message, and each call's customer message is directly
\* followed by its reply, which is directly followed by its closing message
\* if it appended one.
HistoryTwoPerProcessMessage ==
    \A i \in DOMAIN store :
        (\A k \in CallIds : InProcessMessage(k) => calls[k].conversation_id # i)
        => LET h == ProcessMessageEntries(i)
               n == Cardinality({k \in CallIds : ProcessedMessage(k) /\ calls[k].conversation_id = i})
           IN  /\ Len(h) = 2 * n + Len(SelectSeq(h, IsConclusion))
               /\ \A p \in 1..Len(h) :
                    /\ h[p].type = "message"
                         => p < Len(h) /\ h[p + 1].type = "reply" /\ h[p + 1].call = h[p].call
                    /\ h[p].type = "reply"
                         => p > 1 /\ h[p - 1].type = "message" /\ h[p - 1].call = h[p].call
                    /\ h[p].type = "conclusion"
                         => p > 1 /\ h[p - 1].type = "reply" /\ h[p - 1].call = h[p].call

IsPrefix(a, b) == Len(a) <= Len(b) /\ \A p \in 1..Len(a) : b[p] = a[p]

\* C7: every step leaves each stored history a prefix of the history after
\* the step: messages are only appended, never changed, reordered or removed.
HistoryAppendOnly ==
    [][\A i \in DOMAIN store :
          i \in DOMAIN store' /\ IsPrefix(store[i].messages, store'[i].messages)]_vars

\* C7, the case: a conversation that took a welcome, a customer message, a
\* reply and a closing message, and then had its status updated.
HistoryAppendOnlyWitness ==
    \E i \in DOMAIN store :
        /\ Len(store[i].messages) >= 4
        /\ store[i].status \in TerminalStatus

\* C8: while the AI Gateway times out on every call, no step changes the
\* stored status of a conversation.
StatusUnchangedWhileGatewayDown ==
    [][gateway = "down" =>
          \A i \in DOMAIN store : store'[i].status = store[i].status]_vars

CreateFailureIsContained ==
    \A k \in CallIds :
        (Done(k) /\ calls[k].start.called /\ ~calls[k].created)
        => /\ ~calls[k].start.raised
           /\ calls[k].start.conversation_id = 0
           /\ calls[k].start.text = WelcomeFallback
           /\ ~calls[k].success
           /\ calls[k].error = InitFailedError

\* C10, the case: a start whose create failed has returned.
CreateFailureIsContainedWitness ==
    \E k \in CallIds :
        /\ Done(k) /\ calls[k].start.called /\ ~calls[k].created
        /\ calls[k].http = 500

-----------------------------------------------------------------------------
(* Properties of the task layer *)

TaskTypes ==
    {"conversation_message", "manipulator_interaction", "continue_conversation",
     "webhook_processing", "analytics_generation", "performance_report",
     "data_cleanup"}

\* The transitions the task lifecycle allows.
LifecycleSteps ==
    {<<PENDING, PROCESSING>>, <<PROCESSING, SUCCESS>>, <<PROCESSING, FAILURE>>,
     <<PROCESSING, REVOKED>>, <<PENDING, REVOKED>>}

\* C11: the state of every task changes only along Pending -> Processing ->
\* {Succeeded, Failed, Cancelled} or Pending -> Cancelled; a task that is
\* Succeeded, Failed or Cancelled never changes state again.
TaskLifecycleMonotonic ==
    [][\A k \in TaskIds :
            AsyncResultState(k)' # AsyncResultState(k)
                => <<AsyncResultState(k), AsyncResultState(k)'>> \in LifecycleSteps]_vars

\* C12: a cancel of a task that is already Succeeded, Failed or Cancelled,
\* or of a handle nobody dispatched, returns false and changes neither the
\* recorded state of the task nor its tracking entry.
CancelOfFinishedOrUnknownReturnsFalse ==
    [][\A task_id \in Handles :
            (/\ cancel_task(task_id)
             /\ \/ task_id \notin Dispatched
                \/ AsyncResultState(task_id) \in FinishedStates)
                => /\ last'.outcome = "False"
                   /\ task_meta' = task_meta
                   /\ active_tasks' = active_tasks]_vars

\* C13: the status returned for a handle of which the queue backend has no
\* record is NotFound, never Pending or another lifecycle state.
UnknownHandleIsNotFound ==
    (last.op = "get_task_status" /\ last.handle = UnknownHandle)
        => last.outcome = "NOT_FOUND"

\* C14: the status returned for a dispatched task that no worker has picked
\* up yet is Pending.
QueuedTaskIsPending ==
    (/\ last.op = "get_task_status"
     /\ last.handle \in TaskIds
     /\ worker[last.handle] = "queued")
        => last.outcome = PENDING

QueuedTaskIsPendingWitness ==
    /\ last.op = "get_task_status"
    /\ last.handle \in TaskIds
    /\ worker[last.handle] = "queued"
    /\ last.outcome = PENDING

\* The static map of priorities to queue lanes.
PriorityLane ==
    [priority \in Priorities |->
        CASE priority = "high" -> "conversations"
          [] priority = "medium" -> "webhooks"
          [] priority = "low" -> "analytics"]

QueueOf(task_id) == {q \in QueueNames : \E i \in 1..Len(queues[q]) : queues[q][i] = task_id}

\* C15: every dispatched task, of every task type, is on the queue that the
\* static map High -> conversations, Medium -> webhooks, Low -> analytics
\* gives for the priority passed to its dispatch, and on no other queue.
DispatchFollowsPriorityLane ==
    \A task_id \in Dispatched :
        /\ task_id \in DOMAIN active_tasks
        /\ QueueOf(task_id) = {PriorityLane[active_tasks[task_id].priority]}

DispatchFollowsPriorityLaneWitness ==
    /\ \A q \in QueueNames : queues[q] # <<>>
    /\ \E task_id \in Dispatched : active_tasks[task_id].task_type = "data_cleanup"

\* C16: the list of active tasks never holds a task whose backend state is
\* Succeeded, Failed or Cancelled.
ActiveListHasNoFinishedTask ==
    \A status \in active_task_list :
        AsyncResultState(status.task_id) \notin FinishedStates

ActiveListHasNoFinishedTaskWitness ==
    /\ last.op = "get_active_tasks"
    /\ \E i, j \in DOMAIN active_tasks :
        /\ AsyncResultState(i) \in FinishedStates
        /\ AsyncResultState(j) \notin FinishedStates
        /\ \E status \in active_task_list : status.task_id = j

ThreeDispatchedHighLowHigh ==
    /\ Cardinality(Dispatched) = 3
    /\ Dispatched \subseteq DOMAIN active_tasks
    /\ active_tasks[1].priority = "high"
    /\ active_tasks[2].priority = "low"
    /\ active_tasks[3].priority = "high"

\* C17: after three dispatches with priorities High, Low, High and before any
\* worker runs, both High tasks are in the conversations queue, the Low task
\* is in the analytics queue, and the list of active tasks holds all three,
\* each Pending.
ScenarioHighLowHigh ==
    ThreeDispatchedHighLowHigh
        => /\ QueueOf(1) = {"conversations"}
           /\ QueueOf(3) = {"conversations"}
           /\ QueueOf(2) = {"analytics"}
           /\ {<<status.task_id, status.status>> : status \in active_task_list}
                = {<<1, PENDING>>, <<2, PENDING>>, <<3, PENDING>>}

ScenarioHighLowHighWitness ==
    /\ ThreeDispatchedHighLowHigh
    /\ last.op = "get_active_tasks"
    /\ Cardinality(active_task_list) = 3

\* A call of a dispatch entry point has just ended.
DispatchStep == last'.op = "dispatch" /\ (last' # last \/ worker' # worker)

\* C18: a dispatch that returns a handle adds exactly one tracking entry,
\* keyed by that handle and holding the type, the priority and the creation
\* time of the task, and leaves every other entry as it was; a dispatch that
\* fails adds no entry.
DispatchTracksOneEntry ==
    [][DispatchStep =>
        IF last'.outcome = "returned"
        THEN /\ last'.handle \notin DOMAIN active_tasks
             /\ DOMAIN active_tasks' = DOMAIN active_tasks \cup {last'.handle}
             /\ active_tasks'[last'.handle] =
                    [task_type |-> last'.task_type, created_at |-> now,
                     priority |-> last'.priority]
             /\ last'.task_type \in TaskTypes
             /\ \A j \in DOMAIN active_tasks : active_tasks'[j] = active_tasks[j]
        ELSE active_tasks' = active_tasks]_vars

DispatchTracksOneEntryWitness ==
    /\ last.op = "dispatch"
    /\ last.outcome = "returned"
    /\ Cardinality(DOMAIN active_tasks) > 1
    /\ last.handle \in DOMAIN active_tasks

\* C19: a dispatch fails only when the queue backend is unreachable, and then
\* with TaskProcessingError; with a reachable backend every dispatch entry
\* point, process_conversation_async included, returns a handle.
DispatchFailsOnlyWhenUnreachable ==
    last.op = "dispatch"
        => IF redis = "up"
           THEN last.outcome = "returned"
           ELSE last.outcome = "TaskProcessingError"

-----------------------------------------------------------------------------
(* Relevance Matcher *)

\* Jaccard score of the lower-cased keyword set and the lower-cased tag set.
Jaccard(keywords, tags) ==
    LET K == {lower(w) : w \in Range(keywords)}
        T == {lower(w) : w \in Range(tags)}
    IN  IF K \cup T = {}
        THEN Quotient(0, 1)
        ELSE Quotient(Cardinality(K \cap T), Cardinality(K \cup T))

\* C21: every returned item carries its Jaccard score, that score is at
\* least the threshold, the items are in descending order of score, and
\* items of equal score are in the order of the rows they came from.
MatchThresholdedDescendingStable ==
    matcher.pc = "returned" =>
        LET m == matcher.matches
        IN  /\ \A i \in DOMAIN m :
                /\ m[i].product_id \in DOMAIN matcher.all_products
                /\ SameQuotient(m[i].score,
                                Jaccard(matcher.keywords,
                                        matcher.all_products[m[i].product_id]))
                /\ m[i].score.num * matcher.threshold.den
                      >= matcher.threshold.num * m[i].score.den
            /\ \A i, j \in DOMAIN m :
                i < j =>
                    /\ m[i].score.num * m[j].score.den >= m[j].score.num * m[i].score.den
                    /\ (m[i].score.num * m[j].score.den = m[j].score.num * m[i].score.den
                            => m[i].product_id < m[j].product_id)

\* Three rows returned for a positive threshold, the second row first and
\* the two others, of equal score, behind it.
MatchThresholdedDescendingStableWitness ==
    /\ matcher.pc = "returned"
    /\ matcher.threshold.num > 0
    /\ Len(matcher.matches) = 3
    /\ matcher.matches[1].product_id = 2
    /\ SameQuotient(matcher.matches[2].score, matcher.matches[3].score)
    /\ ~SameQuotient(matcher.matches[1].score, matcher.matches[2].score)

\* C22: a search without keywords and with a positive threshold returns
\* nothing; a returned row without tags, or one returned for a search
\* without keywords, or one that shares no word with the keywords, has
\* score 0 and was returned for a threshold that is not positive.
EmptySetsScoreZero ==
    matcher.pc = "returned" =>
        /\ (matcher.keywords = <<>> /\ matcher.threshold.num > 0)
                => matcher.matches = <<>>
        /\ \A i \in DOMAIN matcher.matches :
            LET tags == matcher.all_products[matcher.matches[i].product_id]
            IN  (\/ matcher.keywords = <<>>
                 \/ tags = <<>>
                 \/ Jaccard(matcher.keywords, tags).num = 0)
                    => /\ matcher.matches[i].score.num = 0
                       /\ matcher.threshold.num <= 0

\* A search with keywords for threshold 0 that returned a row without tags.
EmptySetsScoreZeroWitness ==
    /\ matcher.pc = "returned"
    /\ matcher.keywords # <<>>
    /\ matcher.threshold.num = 0
    /\ \E i \in DOMAIN matcher.matches :
        matcher.all_products[matcher.matches[i].product_id] = <<>>

-----------------------------------------------------------------------------
(* Prompt Composer *)

\* C23: two calls of generate_conversation_prompt with equal arguments
\* returned the same text, whichever process made them and whatever was
\* composed before.
ComposeIsPure ==
    \A a, b \in composer.log : a.input = b.input => a.output = b.output

\* The same two products composed in two processes with different hash seeds.
ComposeIsPureWitness ==
    \E a, b \in composer.log :
        /\ a.process # b.process
        /\ composer.seed[a.process] # composer.seed[b.process]
        /\ a.input = b.input
        /\ Len(a.input.products) = 2


-----------------------------------------------------------------------------
(* Failure scope *)

-----------------------------------------------------------------------------
(* Gateway timeout *)

-----------------------------------------------------------------------------
(* Priority lanes and acknowledgement *)

\* The rank of a lane: the higher, the more urgent.
LaneRank(q) ==
    CASE q = high_priority_queue -> 3
      [] q = medium_priority_queue -> 2
      [] q = low_priority_queue -> 1

BeginsExecution(k) == worker[k] = "queued" /\ worker'[k] = "started"

\* C26: a task that begins execution is the oldest of its lane, and no lane
\* of higher priority holds a pending task at that moment.
LaneFifoAndPriorityFirst ==
    [][\A k \in TaskIds :
        BeginsExecution(k) =>
            \E q \in QueueNames :
                /\ queues[q] # <<>>
                /\ Head(queues[q]) = k
                /\ \A h \in QueueNames :
                    LaneRank(h) > LaneRank(q) => queues[h] = <<>>]_vars

InQueue(k) == \E q \in QueueNames : \E i \in DOMAIN queues[q] : queues[q][i] = k

\* C27: the message of a dispatched task is acknowledged only when its
\* handler has completed, and until then the task is waiting in a queue or
\* with a worker: a task whose worker was lost is in its queue again.
LateAckKeepsEveryTask ==
    \A k \in Dispatched :
        /\ k \in DOMAIN unacked <=> worker[k] \in {"started", "wrote_success", "wrote_failure"}
        /\ \/ InQueue(k)
           \/ k \in DOMAIN unacked
           \/ worker[k] \in {"returned", "raised"}

\* A task that had entered its handler is waiting in its queue again.
LateAckKeepsEveryTaskWitness ==
    \E k \in Dispatched :
        /\ InQueue(k)
        /\ worker[k] = "queued"
        /\ task_meta[k].status \in {PROCESSING, SUCCESS, FAILURE}


-----------------------------------------------------------------------------
(* Status transitions *)

\* C28: the decision for a message is Qualified exactly when its analysis
\* has intent purchase and interest level high or medium.
QualifiedExactlyOnPurchaseInterest ==
    decision.pc = "returned" =>
        (decision.status = QUALIFIED
            <=> /\ decision.customer_analysis.intent = "purchase"
                /\ decision.customer_analysis.interest_level \in {"high", "medium"})

\* A purchase intent with medium interest was decided Qualified.
QualifiedExactlyOnPurchaseInterestWitness ==
    /\ decision.pc = "returned"
    /\ decision.status = QUALIFIED
    /\ decision.customer_analysis.intent = "purchase"
    /\ decision.customer_analysis.interest_level = "medium"

\* The handler passes from the analysis to the stored reply.
DecidesStatus(k) ==
    /\ calls[k].pc = "pm_respond"
    /\ calls'[k].pc \in {"conclude_add", "done"}
    /\ store' # store

\* C29: the message count the status decision uses is the number of
\* messages exchanged in the conversation so far.
DecisionCountsHistory ==
    [][\A k \in CallIds :
        DecidesStatus(k) =>
            calls[k].message_count + 1 = Len(store[calls[k].conversation_id].messages)]_vars

\* C30: when process_customer_message returns (reply, status) for a
\* conversation of the store, the stored status of that conversation is the
\* returned status.
ReturnedStatusIsStored ==
    [][\A k \in CallIds :
        (/\ calls[k].pc \in {"pm_respond", "conclude_add", "conclude_status"}
         /\ calls'[k].pc = "done"
         /\ calls'[k].ai_response # ApologyReply
         /\ calls[k].conversation_id \in DOMAIN store')
        => store'[calls[k].conversation_id].status = calls'[k].conversation_status]_vars

-----------------------------------------------------------------------------
(* Conclusion of a conversation *)

\* The history of conversation i holds the reply of call k and, somewhere
\* behind it, the closing message of call k.
ClosingAfterReply(i, k) ==
    \E p, q \in DOMAIN store[i].messages :
        /\ p < q
        /\ store[i].messages[p] = Message("agent", "reply", k)
        /\ store[i].messages[q] = Message("agent", "conclusion", k)

\* C31: a process_customer_message call that returned a terminal status
\* (qualified or uninterested) has appended a closing message to the history
\* of its conversation, behind its reply.
TerminalDecisionAppendsClosing ==
    \A k \in CallIds :
        (/\ ProcessedMessage(k)
         /\ calls[k].conversation_status \in TerminalStatus
         /\ calls[k].conversation_id \in DOMAIN store)
        => ClosingAfterReply(calls[k].conversation_id, k)

-----------------------------------------------------------------------------
(* Message analysis *)

\* C32: while the AI Gateway answers its calls, the intent and interest level
\* a process_customer_message call decides on are the gateway's
\* classification; the keyword heuristics supply them only while the
\* gateway's calls fail.
ClassificationFromGatewayWhenItAnswers ==
    \A k \in CallIds :
        /\ (gateway = "up" => calls[k].analysis_source # "heuristics")
        /\ (gateway = "down" => calls[k].analysis_source # "gateway")

-----------------------------------------------------------------------------
(* Size of a composed prompt *)

IsItemPiece(piece) == piece.kind = "item"
IsHistoryPiece(piece) == piece.kind = "history"

\* The products a prompt shows and the history lines it shows.
ItemsShown(output) == SelectSeq(output, IsItemPiece)
HistoryShown(output) == SelectSeq(output, IsHistoryPiece)

\* A prompt shows no more than three products and five history lines.
PromptWithinBounds ==
    \A e \in composer.log :
        Len(ItemsShown(e.output)) <= 3 /\ Len(HistoryShown(e.output)) <= 5

\* C33: the products a composed prompt shows are the three highest-scored of
\* the products passed in (all of them when fewer than three are passed; the
\* list is passed highest score first, as the Relevance Matcher returns it),
\* and the history lines it shows are the last five entries of the history
\* passed in (all of them when it has fewer than five), whatever the lengths
\* of the two lists.
PromptShowsTopThreeAndLastFive ==
    \A e \in composer.log :
        LET items == ItemsShown(e.output)
            lines == HistoryShown(e.output)
            products == e.input.products
            history == e.input.conversation_history
        IN  /\ Len(items) = Min(3, Len(products))
            /\ \A i \in DOMAIN items : items[i].body[1] = products[i].product_description
            /\ Len(lines) = Min(5, Len(history))
            /\ \A i \in DOMAIN lines :
                    lines[i] = HistoryPiece(history[Len(history) - Len(lines) + i])

-----------------------------------------------------------------------------
(* Garbage collection of the tracking map *)

\* Hours since the tracking entry of task j was created.
Age(j) == now - active_tasks[j].created_at

\* The step is a call of get_active_tasks, which begins with the clean-up.
CleanupStep ==
    /\ last'.op = "get_active_tasks"
    /\ UNCHANGED <<queues, worker, task_meta, revoked, now>>

\* C34: a clean-up of the tracking map removes exactly the entries that are
\* older than 24 hours and whose task is in a finished state (SUCCESS,
\* FAILURE, REVOKED): an entry no older than 24 hours stays, an entry of a
\* pending or processing task stays, and every entry that is both older and
\* finished goes.
CleanupRemovesExactlyOldFinished ==
    [][CleanupStep =>
        /\ \A j \in DOMAIN active_tasks :
                j \in DOMAIN active_tasks'
                    <=> ~(Age(j) > TrackingRetention /\ AsyncResultState(j) \in FinishedStates)
        /\ DOMAIN active_tasks' \subseteq DOMAIN active_tasks
        /\ \A j \in DOMAIN active_tasks' : active_tasks'[j] = active_tasks[j]]_vars

\* C34, the case: after a clean-up, the entry of a finished task from before
\* the window is gone, while the entry of a task from the same hour that is
\* still processing is kept.
CleanupRemovesExactlyOldFinishedWitness ==
    /\ last.op = "get_active_tasks"
    /\ \E gone, kept \in Dispatched :
        /\ gone \notin DOMAIN active_tasks
        /\ gone \notin revoked
        /\ AsyncResultState(gone) \in FinishedStates
        /\ kept \in DOMAIN active_tasks
        /\ Age(kept) > TrackingRetention
        /\ AsyncResultState(kept) = PROCESSING

-----------------------------------------------------------------------------
(* First entry of a Convincer conversation *)

\* Handler k of POST /conversation/message created conversation i, stored the
\* customer's message in it, and has returned.
CreatedByFirstMessage(k, i) ==
    /\ Done(k)
    /\ calls[k].kind = "message"
    /\ calls[k].created
    /\ calls[k].conversation_id = i
    /\ i \in DOMAIN store
    /\ \E p \in DOMAIN store[i].messages :
            store[i].messages[p] = Message("customer", "message", k)

\* C35: when a customer's first message has created a Convincer
\* conversation, the first entry of the conversation's history is that
\* customer message.
FirstEntryIsFirstCustomerMessage ==
    \A k \in CallIds : \A i \in DOMAIN store :
        CreatedByFirstMessage(k, i)
            => store[i].messages[1] = Message("customer", "message", k)

-----------------------------------------------------------------------------
(* Routing by task family *)

\* task_routes of the Celery configuration: the queue of each task module
\* (conversation_tasks, webhook_tasks, analytics_tasks), by the task type
\* the TaskManager records for the tasks of that module.
family_queue(task_type) ==
    CASE task_type \in {"conversation_message", "manipulator_interaction",
                        "continue_conversation"} -> "conversations"
      [] task_type = "webhook_processing" -> "webhooks"
      [] OTHER -> "analytics"

\* C36: every dispatch puts the task on the queue of its family:
\* conversation tasks on conversations, webhook tasks on webhooks, analytics
\* tasks on analytics.
DispatchRoutesByFamily ==
    [][(DispatchStep /\ last'.outcome = "returned") =>
        \E i \in DOMAIN queues'[family_queue(last'.task_type)] :
            queues'[family_queue(last'.task_type)][i] = last'.handle]_vars

-----------------------------------------------------------------------------
(* Failed start *)

\* start_conversation of handler k has ended without a conversation id, and
\* the engine has reported success = false.
StartReportedFailure(k) ==
    /\ Done(k)
    /\ calls[k].start.called
    /\ calls[k].start.conversation_id = 0
    /\ ~calls[k].success

\* C37: when a start reports failure, no conversation that this start
\* inserted is in the store.
FailedStartLeavesNoConversation ==
    \A k \in CallIds :
        StartReportedFailure(k)
            => ~(calls[k].created /\ calls[k].conversation_id \in DOMAIN store)

-----------------------------------------------------------------------------
(* Error fallback of process_customer_message *)

\* The customer message of handler k is in the history of its conversation
\* and no reply of handler k follows it.
CustomerMessageWithoutReply(k) ==
    LET i == calls[k].conversation_id
    IN  /\ i \in DOMAIN store
        /\ \E p \in DOMAIN store[i].messages :
            /\ store[i].messages[p] = Message("customer", "message", k)
            /\ \A q \in DOMAIN store[i].messages :
                    q > p => store[i].messages[q] # Message("agent", "reply", k)

\* C38: when a process_customer_message call has ended on its error
\* fallback (the apology), it has left no customer message in the history
\* without a reply behind it: the history is as it was before the call.
ErrorFallbackLeavesHistoryAsBefore ==
    \A k \in CallIds :
        (Done(k) /\ calls[k].ai_response = ApologyReply)
            => ~CustomerMessageWithoutReply(k)

-----------------------------------------------------------------------------
(* Listing of unfinished tasks *)

\* C39: every task dispatched through the TaskManager whose state in the
\* result backend is PENDING or PROCESSING is in the list get_active_tasks
\* returns, also after a cancel request for it.
UnfinishedTaskIsListed ==
    redis = "up" =>
        \A k \in Dispatched :
            AsyncResultState(k) \in {PENDING, PROCESSING}
                => \E entry \in active_task_list : entry.task_id = k

-----------------------------------------------------------------------------
(* Closing message only on a terminal decision *)

\* C40: every closing message in a history was appended by a
\* process_customer_message call whose decided status is qualified or
\* uninterested; a call that decided active has appended none.
ClosingOnlyOnTerminalDecision ==
    \A i \in DOMAIN store : \A p \in DOMAIN store[i].messages :
        store[i].messages[p].type = "conclusion"
            => calls[store[i].messages[p].call].conversation_status \in TerminalStatus

\* C40, the case: one call decided uninterested and appended a closing
\* message, another call decided active on an analysis and returned its reply.
ClosingOnlyOnTerminalDecisionWitness ==
    \E k1, k2 \in CallIds :
        /\ k1 # k2
        /\ calls[k1].conversation_status = UNINTERESTED
        /\ calls[k1].conversation_id \in DOMAIN store
        /\ \E p \in DOMAIN store[calls[k1].conversation_id].messages :
                store[calls[k1].conversation_id].messages[p] = Message("agent", "conclusion", k1)
        /\ Done(k2)
        /\ calls[k2].conversation_status = ACTIVE
        /\ calls[k2].analysis_source # "none"
        /\ calls[k2].start.called

=============================================================================
